---- MODULE Spec2Model ----
(***************************************************************************)
(* A model of the BMP decoder of Server/src/parseBMP.cpp: one decoder      *)
(* instance reading one byte stream (the socket), the peer record and the  *)
(* router record it fills, and the calls it makes to the storage sink.     *)
(*                                                                         *)
(* Bytes are naturals 0..255.  TLC's integers are 32 bit signed, so every  *)
(* uint32_t of the program is kept as a pair <<hi, lo>> of 16-bit halves   *)
(* and its arithmetic is done modulo 2^32 on the halves.  The host is      *)
(* little-endian, which is what reverseBytes() in the code assumes.        *)
(* Texts (char arrays) are sequences of one-character strings.             *)
(***************************************************************************)
EXTENDS Integers, Sequences, FiniteSets, TLC

(***************************************************************************)
(* Bounds of the model.                                                    *)
(***************************************************************************)
\* the number of messages put on one connection
MaxMsgs == 2

(***************************************************************************)
(* Program constants.  parseBMP.h and DbInterface.hpp are not among the    *)
(* sources; their values are taken from the wire formats the               *)
(* specification gives.                                                    *)
(***************************************************************************)
BMP_HDRv3_LEN == 5
BMP_HDRv1v2_LEN == 43
BMP_PEER_HDR_LEN == 42
BMP_INIT_MSG_LEN == 4
BMP_TERM_MSG_LEN == 4

TYPE_ROUTE_MON == 0
TYPE_STATS_REPORT == 1
TYPE_PEER_DOWN == 2
TYPE_PEER_UP == 3
TYPE_INIT_MSG == 4
TYPE_TERM_MSG == 5

STATS_PREFIX_REJ == 0
STATS_DUP_PREFIX == 1
STATS_DUP_WITHDRAW == 2
STATS_INVALID_CLUSTER_LIST == 3
STATS_INVALID_AS_PATH_LOOP == 4
STATS_INVALID_ORIGINATOR_ID == 5
STATS_INVALID_AS_CONFED_LOOP == 6
STATS_NUM_ROUTES_ADJ_RIB_IN == 7
STATS_NUM_ROUTES_LOC_RIB == 8

INIT_TYPE_FREE_FORM_STRING == 0
INIT_TYPE_SYSDESCR == 1
INIT_TYPE_SYSNAME == 2

TERM_TYPE_FREE_FORM_STRING == 0
TERM_TYPE_REASON == 1

TERM_REASON_UNSPECIFIED == 0
TERM_REASON_ADMIN_CLOSE == 1
TERM_REASON_OUT_OF_RESOURCES == 2
TERM_REASON_REDUNDANT_CONN == 3

\* sizeof(r_entry.initiate_data), sizeof(r_entry.term_data)
INITIATE_DATA_SIZE == 4096
TERM_DATA_SIZE == 4096
\* sizeof(r_entry.name), sizeof(r_entry.descr)
ROUTER_NAME_SIZE == 255
ROUTER_DESCR_SIZE == 255

\* the limit of handleInitMsg and handleTermMsg on bmp_len
MAX_TLV_MSG_LEN == 40000

\* sizeof(b), the scratch buffer of handleStatsReport
STATS_BUF_SIZE == 4

(***************************************************************************)
(* Bytes and fixed-width integers.                                         *)
(***************************************************************************)
Byte == 0..255

\* reverseBytes(buf, n): the byte run reversed in place
reverseBytes(s) == [i \in 1..Len(s) |-> s[Len(s) + 1 - i]]

\* a uint16_t read from 2 bytes of host (little-endian) memory
HostU16(s) == s[1] + 256 * s[2]

\* a uint32_t read from 4 bytes of host memory, as <<hi, lo>>
HostU32(s) == <<s[3] + 256 * s[4], s[1] + 256 * s[2]>>

U32Zero == <<0, 0>>

\* a small natural as a uint32_t
U32(n) == <<n \div 65536, n % 65536>>

\* u - k modulo 2^32, for 0 <= k < 65536
U32Sub(u, k) ==
    IF u[2] >= k THEN <<u[1], u[2] - k>>
    ELSE <<(u[1] + 65535) % 65536, u[2] + 65536 - k>>

\* u <= v, both uint32_t
U32Leq(u, v) == u[1] < v[1] \/ (u[1] = v[1] /\ u[2] <= v[2])

\* u <= n for a natural n < 2^31
U32LeqNat(u, n) == U32Leq(u, U32(n))

\* the natural a uint32_t below 2^31 stands for
U32Nat(u) == u[1] * 65536 + u[2]

\* a char (signed, 8 bit) holding the byte b
SChar(b) == IF b > 127 THEN b - 256 ELSE b

\* n zero bytes
Zeros(n) == [i \in 1..n |-> 0]

\* the first n bytes of a zero-initialised object of n bytes after `data`
\* has been received into its start
ZeroFilled(data, n) == [i \in 1..n |-> IF i <= Len(data) THEN data[i] ELSE 0]

(***************************************************************************)
(* Encoders of the wire formats, used to build the streams fed to the      *)
(* decoder.                                                                *)
(***************************************************************************)
U16BE(n) == <<n \div 256, n % 256>>

U32BE(n) == <<n \div 16777216, (n \div 65536) % 256, (n \div 256) % 256, n % 256>>

\* the v3 common header with its version byte
EncHdrV3(type, len) == <<3, type>> \o U32BE(len)

\* the v3 per-peer header
EncPeerHdr(ptype, flags, rd, addr, as, id, ts) ==
    <<ptype, flags>> \o rd \o addr \o as \o id \o U32BE(ts) \o Zeros(4)

\* one type-length-value record
EncTLV(type, len, value) == U16BE(type) \o U16BE(len) \o value

RECURSIVE Concat(_)
Concat(ss) == IF ss = <<>> THEN <<>> ELSE Head(ss) \o Concat(Tail(ss))

(***************************************************************************)
(* Text formatting: what snprintf, inet_ntop and strtoll do.               *)
(***************************************************************************)
HexDigits == <<"0", "1", "2", "3", "4", "5", "6", "7", "8", "9",
               "a", "b", "c", "d", "e", "f">>

\* "%d" of a natural below 2^31
RECURSIVE Dec(_)
Dec(n) == IF n < 10 THEN <<HexDigits[n + 1]>>
          ELSE Dec(n \div 10) \o <<HexDigits[(n % 10) + 1]>>

\* "%x" of a natural below 2^31
RECURSIVE Hex(_)
Hex(n) == IF n < 16 THEN <<HexDigits[n + 1]>>
          ELSE Hex(n \div 16) \o <<HexDigits[(n % 16) + 1]>>

\* "%04x" of a natural below 65536
Hex04(n) == <<HexDigits[(n \div 4096) + 1], HexDigits[((n \div 256) % 16) + 1],
              HexDigits[((n \div 16) % 16) + 1], HexDigits[(n % 16) + 1]>>

\* a | b on bytes
RECURSIVE BitOr(_, _)
BitOr(a, b) ==
    IF a = 0 THEN b ELSE IF b = 0 THEN a
    ELSE (IF (a % 2 = 1) \/ (b % 2 = 1) THEN 1 ELSE 0) + 2 * BitOr(a \div 2, b \div 2)

\* big * 256 + add on a number kept as base-10000 limbs, least significant first
RECURSIVE LimbsMulAdd(_, _)
LimbsMulAdd(limbs, carry) ==
    IF limbs = <<>> THEN (IF carry = 0 THEN <<>> ELSE <<carry % 10000>> \o LimbsMulAdd(<<>>, carry \div 10000))
    ELSE LET v == Head(limbs) * 256 + carry
         IN  <<v % 10000>> \o LimbsMulAdd(Tail(limbs), v \div 10000)

RECURSIVE LimbsOfBytes(_)
LimbsOfBytes(bytes) ==
    IF bytes = <<>> THEN <<>>
    ELSE LimbsMulAdd(LimbsOfBytes(SubSeq(bytes, 1, Len(bytes) - 1)), bytes[Len(bytes)])

Dec4(n) == <<HexDigits[(n \div 1000) + 1], HexDigits[((n \div 100) % 10) + 1],
             HexDigits[((n \div 10) % 10) + 1], HexDigits[(n % 10) + 1]>>

RECURSIVE LimbsText(_)
LimbsText(limbs) ==
    IF limbs = <<>> THEN <<"0">>
    ELSE IF Len(limbs) = 1 THEN Dec(limbs[1])
    ELSE LimbsText(Tail(limbs)) \o Dec4(Head(limbs))

\* "%lu" of the unsigned number whose big-endian bytes are given
DecOfBytes(bytes) == LimbsText(LimbsOfBytes(bytes))

\* "%lu" of (unsigned long)(b1 << 24 | b2 << 16 | b3 << 8 | b4): the int
\* expression is negative when b1 >= 128 and is sign-extended to 64 bits
DecULongOfInt(b1, b2, b3, b4) ==
    IF b1 >= 128 THEN DecOfBytes(<<255, 255, 255, 255, b1, b2, b3, b4>>)
    ELSE DecOfBytes(<<b1, b2, b3, b4>>)

\* "%d.%d.%d.%d" and inet_ntop(AF_INET, ...)
inet_ntop4(a) == Dec(a[1]) \o <<".">> \o Dec(a[2]) \o <<".">> \o Dec(a[3]) \o <<".">> \o Dec(a[4])

\* inet_ntop(AF_INET6, ...): the 8 words in hex, the longest run of two or
\* more zero words (the first of the longest) written "::", and the last 4
\* bytes in dotted-quad form for v4-mapped and v4-compatible addresses
Words6(a) == [i \in 1..8 |-> a[2 * i - 1] * 256 + a[2 * i]]

\* the length of the run of zero words starting at word i (0 when word i is not 0)
RECURSIVE ZeroRun(_, _)
ZeroRun(w, i) == IF i > 8 \/ w[i] # 0 THEN 0 ELSE 1 + ZeroRun(w, i + 1)

\* <<base, len>> of the best zero run, <<0, 0>> when there is none
BestRun(w) ==
    LET starts == {i \in 1..8 : (i = 1 \/ w[i - 1] # 0) /\ ZeroRun(w, i) >= 2}
    IN  IF starts = {} THEN <<0, 0>>
        ELSE LET b == CHOOSE i \in starts :
                        \A j \in starts : ZeroRun(w, i) > ZeroRun(w, j)
                                          \/ (ZeroRun(w, i) = ZeroRun(w, j) /\ i <= j)
             IN  <<b, ZeroRun(w, b)>>

RECURSIVE Ntop6From(_, _, _, _)
Ntop6From(a, w, best, i) ==
    IF i > 8 THEN (IF best[1] # 0 /\ best[1] + best[2] = 9 THEN <<":">> ELSE <<>>)
    ELSE IF best[1] # 0 /\ i >= best[1] /\ i < best[1] + best[2]
         THEN (IF i = best[1] THEN <<":">> ELSE <<>>) \o Ntop6From(a, w, best, i + 1)
    ELSE IF i = 7 /\ best[1] = 1 /\ (best[2] = 6 \/ (best[2] = 5 /\ w[6] = 65535))
         THEN <<":">> \o inet_ntop4(SubSeq(a, 13, 16))
    ELSE (IF i # 1 THEN <<":">> ELSE <<>>) \o Hex(w[i]) \o Ntop6From(a, w, best, i + 1)

inet_ntop6(a) == Ntop6From(a, Words6(a), BestRun(Words6(a)), 1)

\* the value of one hex digit character
HexVal(c) == (CHOOSE i \in 1..16 : HexDigits[i] = c) - 1

\* strtoll(text, NULL, 16) of "0x" and hex digits, modulo 2^32, as <<hi, lo>>
RECURSIVE HexAcc(_, _)
HexAcc(text, acc) ==
    IF text = <<>> THEN acc
    ELSE HexAcc(Tail(text),
                <<(acc[1] * 16 + acc[2] \div 4096) % 65536,
                  (acc[2] % 4096) * 16 + HexVal(Head(text))>>)

strtoll16(text) ==
    IF Len(text) >= 2 /\ text[1] = "0" /\ text[2] = "x"
    THEN HexAcc(SubSeq(text, 3, Len(text)), U32Zero)
    ELSE HexAcc(text, U32Zero)

(***************************************************************************)
(* The streams fed to the decoder.                                         *)
(***************************************************************************)
PeerHdrA ==
    EncPeerHdr(0, 0, Zeros(8), Zeros(10) \o <<255, 255, 10, 0, 0, 1>>,
               <<0, 0, 253, 232>>, <<192, 168, 0, 1>>, 0)

PeerHdrB ==
    EncPeerHdr(1, 192, <<0, 1, 10, 0, 0, 9, 0, 5>>, <<32, 1, 13, 184>> \o Zeros(11) \o <<1>>,
               <<0, 1, 0, 2>>, <<10, 0, 0, 9>>, 5)

\* an L3VPN peer whose distinguisher is of type 3, admin 7, sub field 9
PeerHdrC ==
    EncPeerHdr(1, 64, <<0, 3, 0, 7, 0, 0, 0, 9>>, Zeros(10) \o <<255, 255, 10, 0, 0, 3>>,
               <<0, 0, 253, 233>>, <<192, 168, 0, 3>>, 7)

\* an L3VPN peer whose distinguisher is of type 2, ASN 2^31 + 1, number 5
PeerHdrD ==
    EncPeerHdr(1, 0, <<0, 2, 128, 0, 0, 1, 0, 5>>, Zeros(10) \o <<255, 255, 10, 0, 0, 4>>,
               <<0, 0, 253, 234>>, <<192, 168, 0, 4>>, 8)

\* a complete v3 message: the declared length is that of the whole message
V3Msg(type, body) == EncHdrV3(type, 1 + BMP_HDRv3_LEN + Len(body)) \o body

Fill(n, b) == [i \in 1..n |-> b]

MsgStats ==
    V3Msg(TYPE_STATS_REPORT,
          PeerHdrA \o U32BE(2) \o EncTLV(0, 4, U32BE(7)) \o EncTLV(7, 8, Zeros(4) \o U32BE(42)))
MsgStats4 ==
    V3Msg(TYPE_STATS_REPORT,
          PeerHdrB \o U32BE(4) \o EncTLV(0, 0, <<>>) \o EncTLV(1, 3, <<1, 2, 3>>)
                   \o EncTLV(12, 4, U32BE(5)) \o EncTLV(1, 4, U32BE(9)))
MsgStatsHi ==
    V3Msg(TYPE_STATS_REPORT,
          PeerHdrA \o U32BE(2) \o EncTLV(8, 8, U32BE(1) \o U32BE(5)) \o EncTLV(0, 4, U32BE(3)))
MsgInit ==
    V3Msg(TYPE_INIT_MSG,
          EncTLV(2, 2, <<114, 49>>)
          \o EncTLV(1, 12, <<67, 105, 115, 99, 111, 32, 73, 79, 83, 32, 88, 82>>))
MsgTerm == V3Msg(TYPE_TERM_MSG, EncTLV(1, 2, <<0, 1>>))
\* an Initiation body of exactly 40000 bytes, and one of 40001
MsgInitMax ==
    V3Msg(TYPE_INIT_MSG,
          Concat([i \in 1..9 |-> EncTLV(3, 4096, Fill(4096, 65))])
          \o EncTLV(3, 3090, Fill(3090, 66)) \o EncTLV(2, 2, <<114, 49>>))
MsgInitOver ==
    V3Msg(TYPE_INIT_MSG,
          Concat([i \in 1..9 |-> EncTLV(3, 4096, Fill(4096, 65))])
          \o EncTLV(3, 3091, Fill(3091, 66)) \o EncTLV(2, 2, <<114, 49>>))
\* an Initiation message of 40001 bytes in all: a body of 39995 bytes
MsgInit40001 ==
    V3Msg(TYPE_INIT_MSG,
          Concat([i \in 1..9 |-> EncTLV(3, 4096, Fill(4096, 65))])
          \o EncTLV(3, 3085, Fill(3085, 66)) \o EncTLV(2, 2, <<114, 49>>))
\* two free-form strings, "hello" and then "hi"
MsgInitTwice ==
    V3Msg(TYPE_INIT_MSG,
          EncTLV(0, 5, <<104, 101, 108, 108, 111>>) \o EncTLV(0, 2, <<104, 105>>))
\* a free-form string of 5000 bytes, then the sysName "r1"
MsgInitLong ==
    V3Msg(TYPE_INIT_MSG, EncTLV(0, 5000, Fill(5000, 65)) \o EncTLV(2, 2, <<114, 49>>))
\* a free-form string of 5000 bytes, then the reason 1
MsgTermLong ==
    V3Msg(TYPE_TERM_MSG, EncTLV(0, 5000, Fill(5000, 65)) \o EncTLV(1, 2, <<0, 1>>))
\* the reason 258, which the draft does not define
MsgTermUnknown == V3Msg(TYPE_TERM_MSG, EncTLV(1, 2, <<1, 2>>))
MsgTermOver == V3Msg(TYPE_TERM_MSG, EncTLV(1, 2, <<0, 1>>) \o EncTLV(0, 39991, Fill(39991, 67)))
MsgUnknown == EncHdrV3(99, 8) \o <<170, 170>>
MsgPeerUp ==
    V3Msg(TYPE_PEER_UP,
          PeerHdrA \o Zeros(10) \o <<255, 255, 10, 0, 0, 2>> \o U16BE(179) \o U16BE(179)
                   \o <<1, 2, 3>>)
MsgRouteMon == V3Msg(TYPE_ROUTE_MON, PeerHdrB \o <<1, 2, 3, 4>>)
MsgPeerDown == V3Msg(TYPE_PEER_DOWN, PeerHdrA \o <<1>>)
MsgV1Stats == <<1, 1>> \o PeerHdrB \o U32BE(1) \o EncTLV(0, 4, U32BE(7))
MsgV2RouteMon == <<2, 0>> \o PeerHdrA \o <<9, 9>>
MsgRouteMonC == V3Msg(TYPE_ROUTE_MON, PeerHdrC \o <<1>>)
MsgRouteMonD == V3Msg(TYPE_ROUTE_MON, PeerHdrD \o <<1>>)
MsgV2RouteMonC == <<2, 0>> \o PeerHdrC \o <<9>>
\* an Initiation body whose only TLV declares 8 bytes of value and holds 2
MsgInitPastEnd == V3Msg(TYPE_INIT_MSG, EncTLV(2, 8, <<114, 49>>))
\* a Termination body that ends with 2 bytes, half a TLV header
MsgTermTail == V3Msg(TYPE_TERM_MSG, EncTLV(1, 2, <<0, 1>>) \o <<0, 9>>)
\* an Initiation body with an empty sysName ahead of a sysDescr, and a
\* Termination body with an empty reason ahead of a free-form string
MsgInitEmptyName == V3Msg(TYPE_INIT_MSG, EncTLV(2, 0, <<>>) \o EncTLV(1, 2, <<88, 82>>))
MsgTermEmptyReason == V3Msg(TYPE_TERM_MSG, EncTLV(1, 0, <<>>) \o EncTLV(0, 2, <<104, 105>>))
\* a v2 Peer Up message
MsgV2PeerUp ==
    <<2, 3>> \o PeerHdrA \o Zeros(10) \o <<255, 255, 10, 0, 0, 2>> \o U16BE(179)
             \o U16BE(179)
\* a message whose type byte is above 127
MsgTypeHigh == EncHdrV3(200, 6)
\* an Initiation header that declares a length below that of the header
MsgLenZero == EncHdrV3(TYPE_INIT_MSG, 0)
MsgBadVer == <<9>>

\* the complete messages
Full ==
    [stats |-> MsgStats, stats4 |-> MsgStats4, statsHi |-> MsgStatsHi, init |-> MsgInit,
     term |-> MsgTerm, initMax |-> MsgInitMax, initOver |-> MsgInitOver,
     init40001 |-> MsgInit40001, initTwice |-> MsgInitTwice, initLong |-> MsgInitLong,
     termLong |-> MsgTermLong, termUnknown |-> MsgTermUnknown, termOver |-> MsgTermOver, unknown |-> MsgUnknown, peerUp |-> MsgPeerUp,
     routeMon |-> MsgRouteMon, peerDown |-> MsgPeerDown, v1Stats |-> MsgV1Stats,
     v2RouteMon |-> MsgV2RouteMon, routeMonC |-> MsgRouteMonC,
     routeMonD |-> MsgRouteMonD, v2RouteMonC |-> MsgV2RouteMonC,
     typeHigh |-> MsgTypeHigh, initPastEnd |-> MsgInitPastEnd,
     termTail |-> MsgTermTail, initEmptyName |-> MsgInitEmptyName,
     termEmptyReason |-> MsgTermEmptyReason, v2PeerUp |-> MsgV2PeerUp, lenZero |-> MsgLenZero, badVer |-> MsgBadVer]

\* the messages cut short by the end of the connection
Cut ==
    [cutVer |-> <<3>>,
     cutHdr |-> <<3, 4, 0>>,
     cutV2 |-> SubSeq(MsgV1Stats, 1, 11),
     cutPeer |-> SubSeq(MsgStats, 1, 16),
     cutCount |-> SubSeq(MsgStats, 1, 50),
     cutType |-> SubSeq(MsgStats, 1, 53),
     cutLen |-> SubSeq(MsgStats, 1, 55),
     cutValue |-> V3Msg(TYPE_STATS_REPORT, PeerHdrA \o U32BE(1) \o EncTLV(0, 4, <<0, 7>>)),
     cutSkip |-> V3Msg(TYPE_STATS_REPORT, PeerHdrA \o U32BE(1) \o EncTLV(1, 5, <<1, 2>>)),
     cutInit |-> SubSeq(MsgInit, 1, 9),
     cutPeerUp |-> SubSeq(MsgPeerUp, 1, 58)]

Catalogue == Full @@ Cut

\* the messages that are followed by another one in some stream
Leading == {"stats", "statsHi", "init", "initOver", "unknown", "peerUp", "v1Stats"}

\* the streams: up to MaxMsgs messages, the last one any message of the
\* catalogue, complete or cut
Inputs ==
    {<<>>} \cup
    UNION {{pre \o <<m>> : pre \in [1..n -> Leading], m \in DOMAIN Catalogue}
           : n \in 0..(MaxMsgs - 1)}

\* the stream offset at which message k of the input ends
RECURSIVE EndOf(_, _)
EndOf(in, k) == IF k = 0 THEN 0 ELSE EndOf(in, k - 1) + Len(Catalogue[in[k]])

(***************************************************************************)
(* The socket.  recv(sock, buf, n, MSG_WAITALL) and read(sock, buf, n)     *)
(* return n bytes while the stream holds them; at the end of the stream    *)
(* they return the bytes left (a short read), and with none left 0 (the    *)
(* peer closed) or -1 (I/O error), as `atEnd` says.  The stream w is given *)
(* by the names of its messages.                                           *)
(***************************************************************************)
\* the number of bytes of the stream
StreamLen(w) == EndOf(w, Len(w))

\* the bytes of the stream from offset a (0-based) up to offset b, taken
\* from message k onwards
RECURSIVE StreamBytes(_, _, _, _)
StreamBytes(w, k, a, b) ==
    IF k > Len(w) \/ a >= b THEN <<>>
    ELSE LET lo == EndOf(w, k - 1)
             hi == EndOf(w, k)
         IN  IF a >= hi THEN StreamBytes(w, k + 1, a, b)
             ELSE IF b <= hi THEN SubSeq(Catalogue[w[k]], a - lo + 1, b - lo)
             ELSE SubSeq(Catalogue[w[k]], a - lo + 1, hi - lo) \o StreamBytes(w, k + 1, hi, b)

Recv(w, p, n, atEnd) ==
    LET avail == StreamLen(w) - p
    IN  IF avail >= n THEN [ret |-> n, data |-> StreamBytes(w, 1, p, p + n)]
        ELSE IF avail > 0 THEN [ret |-> avail, data |-> StreamBytes(w, 1, p, StreamLen(w))]
        ELSE [ret |-> atEnd, data |-> <<>>]

\* the stream position after a recv that returned r
Advance(p, r) == IF r.ret > 0 THEN p + r.ret ELSE p

(***************************************************************************)
(* The peer record (DbInterface::tbl_bgp_peer) and the header parsers.     *)
(***************************************************************************)
\* bzero(p_entry, sizeof(DbInterface::tbl_bgp_peer)) in the constructor
PeerZero ==
    [hash_id |-> 0, peer_addr |-> <<>>, isIPv4 |-> FALSE, peer_as |-> U32Zero,
     peer_bgp_id |-> <<>>, peer_rd |-> <<>>, isL3VPN |-> FALSE,
     isPrePolicy |-> FALSE, timestamp_secs |-> U32Zero]

\* flags & mask, for a mask of one bit
FlagSet(flags, mask) == (flags \div mask) % 2 = 1

\* the peer address text of parsePeerHdr, from flags and the 16-byte field
PeerAddrText(flags, addr) ==
    IF FlagSet(flags, 128) THEN inet_ntop6(addr) ELSE inet_ntop4(SubSeq(addr, 13, 16))

\* an isIPv4 that follows the V flag instead of its absence
PeerIsIPv4Flipped(flags) == FlagSet(flags, 128)

\* isIPv4 as parsePeerHdr sets it
PeerIsIPv4(flags) == ~FlagSet(flags, 128)

\* isPrePolicy as parsePeerHdr sets it
PeerIsPrePolicy(flags) == ~FlagSet(flags, 64)

\* peer_as: "0x%04x%04x" of the two halves of the 4-byte field
PeerAsText(as) == <<"0", "x">> \o Hex04(as[1] * 256 + as[2]) \o Hex04(as[3] * 256 + as[4])

\* peer_rd of parsePeerHdr, by the type in the first two bytes of d
FormatRD(d) ==
    LET type == d[1] * 256 + d[2]
    IN  IF type = 1
        THEN inet_ntop4(SubSeq(d, 3, 6)) \o <<":">> \o Dec(d[7] * 256 + d[8])
        ELSE IF type = 2
        THEN DecULongOfInt(d[3], d[4], d[5], d[6]) \o <<":">> \o Dec(d[7] * 256 + d[8])
        ELSE Dec(d[2] * 256 + d[3]) \o <<":">>
             \o DecULongOfInt(d[4], d[5], d[6], BitOr(d[7], d[8]))

\* peer_rd of parseBMPv2: the same switch, written a second time in the code
FormatRDv2(d) ==
    LET type == d[1] * 256 + d[2]
    IN  IF type = 1
        THEN inet_ntop4(SubSeq(d, 3, 6)) \o <<":">> \o Dec(d[7] * 256 + d[8])
        ELSE IF type = 2
        THEN DecULongOfInt(d[3], d[4], d[5], d[6]) \o <<":">> \o Dec(d[7] * 256 + d[8])
        ELSE Dec(d[2] * 256 + d[3]) \o <<":">>
             \o DecULongOfInt(d[4], d[5], d[6], BitOr(d[7], d[8]))

\* the advertised timestamp: the wire value in host order, or time(NULL) when it is 0
PeerTimestamp(ts, now) ==
    LET t == HostU32(reverseBytes(ts)) IN IF t # U32Zero THEN t ELSE now

\* isL3VPN as parsePeerHdr sets it, from the peer type
PeerIsL3VPN(peer_type) == peer_type = 1

\* the peer record after parsePeerHdr has decoded the 42 bytes h of p_hdr
PeerFromHdrV3(old, h, now) ==
    [old EXCEPT
        !.isIPv4 = PeerIsIPv4(h[2]),
        !.peer_addr = PeerAddrText(h[2], SubSeq(h, 11, 26)),
        !.isPrePolicy = PeerIsPrePolicy(h[2]),
        !.peer_as = strtoll16(PeerAsText(SubSeq(h, 27, 30))),
        !.peer_bgp_id = inet_ntop4(SubSeq(h, 31, 34)),
        !.peer_rd = FormatRD(SubSeq(h, 3, 10)),
        !.timestamp_secs = PeerTimestamp(SubSeq(h, 35, 38), now),
        !.isL3VPN = PeerIsL3VPN(h[1])]

\* a parseBMPv2 that decodes the per-peer part of c_hdr as parsePeerHdr
\* does, the L flag included
PeerFromHdrV2AsV3(old, c, now) == PeerFromHdrV3(old, SubSeq(c, 2, BMP_HDRv1v2_LEN), now)

\* the peer record after parseBMPv2 has decoded the 43 bytes c of c_hdr:
\* c[1] is the message type, c[2] the peer type, c[3] the peer flags
PeerFromHdrV2(old, c, now) ==
    [old EXCEPT
        !.isIPv4 = ~FlagSet(c[3], 128),
        !.peer_addr = IF FlagSet(c[3], 128) THEN inet_ntop6(SubSeq(c, 12, 27))
                      ELSE inet_ntop4(SubSeq(c, 24, 27)),
        !.peer_as = strtoll16(PeerAsText(SubSeq(c, 28, 31))),
        !.peer_bgp_id = inet_ntop4(SubSeq(c, 32, 35)),
        !.peer_rd = FormatRDv2(SubSeq(c, 4, 11)),
        !.timestamp_secs = PeerTimestamp(SubSeq(c, 36, 39), now),
        !.isL3VPN = (c[1] = 1)]

\* parsePeerHdr after its recv of BMP_PEER_HDR_LEN bytes at p returned r: a
\* short read is logged and the parse goes on with what p_hdr = {0} holds
parsePeerHdrGot(p, r, old, now) ==
    [pos |-> Advance(p, r),
     short |-> r.ret # BMP_PEER_HDR_LEN,
     peer |-> PeerFromHdrV3(old, ZeroFilled(r.data, BMP_PEER_HDR_LEN), now)]

parsePeerHdr(w, p, atEnd, old, now) ==
    parsePeerHdrGot(p, Recv(w, p, BMP_PEER_HDR_LEN, atEnd), old, now)

\* a parseBMPv3 that does not parse the peer header of a Peer Down message
HasPeerHdrNoPeerDown(type) ==
    type \in {TYPE_ROUTE_MON, TYPE_STATS_REPORT, TYPE_PEER_UP}

\* the message types after whose common header parseBMPv3 calls parsePeerHdr
HasPeerHdr(type) ==
    type \in {TYPE_ROUTE_MON, TYPE_STATS_REPORT, TYPE_PEER_UP, TYPE_PEER_DOWN}

\* c_hdr.len -= 1 + BMP_HDRv3_LEN, on a uint32_t
V3BodyLen(len) == U32Sub(len, 1 + BMP_HDRv3_LEN)

\* the fields of common_hdr_v3 in the 5 bytes after the version: the type,
\* and the length in host order after reverseBytes
V3HdrType(c) == c[1]
V3HdrLen(c) == HostU32(reverseBytes(SubSeq(c, 2, 5)))

(***************************************************************************)
(* handleStatsReport.                                                      *)
(*                                                                         *)
(* A counter of the stats record is the 8 bytes of host memory it          *)
(* occupies.  recv(sock, b, 8) and reverseBytes(b, 8) write 8 bytes into   *)
(* the 4-byte array b: what the 4 bytes behind b hold is decided by the    *)
(* build, and `ub` names the outcome: "benign" (storage nothing reads      *)
(* again), "stats_cnt" (the low word of the neighbouring local stats_cnt), *)
(* "abort" (the stack guard: the process is aborted when the function      *)
(* returns).                                                               *)
(*                                                                         *)
(* e = [w, atEnd, ub] is the stream, what its end yields and the outcome   *)
(* of the write behind b; st = [i, cnt, stats, fl] is the loop index, the  *)
(* local stats_cnt, the record built so far, and fl.short (some read       *)
(* returned fewer bytes than asked for), fl.overflow (some value was       *)
(* written behind b).                                                      *)
(***************************************************************************)
UBOutcomes == {"benign", "stats_cnt", "abort"}

StatsTypes == STATS_PREFIX_REJ..STATS_NUM_ROUTES_LOC_RIB

\* DbInterface::tbl_stats_report stats = { 0 } with the peer hash copied in
StatsZero(hash) == [peer_hash_id |-> hash, counter |-> [t \in StatsTypes |-> Zeros(8)]]

\* memcpy(&stats.<counter of type>, b, stat_len): no counter for an unknown type
StatsStore(stats, type, b) ==
    IF type \in StatsTypes
    THEN [stats EXCEPT !.counter[type] =
              [k \in 1..8 |-> IF k <= Len(b) THEN b[k] ELSE @[k]]]
    ELSE stats

\* the lengths handleStatsReport reads as a counter value
IsCounterLen(len) == len = 4 \/ len = 8

\* i < stats_cnt, i a loop index and stats_cnt a uint32_t
LoopBelow(i, cnt) == cnt[1] > 0 \/ i < cnt[2]

\* stats_cnt after a counter value of Len(b) bytes was received into b and
\* reversed there
CntAfterValue(cnt, b, ub) ==
    IF Len(b) > STATS_BUF_SIZE /\ ub = "stats_cnt" THEN HostU32(SubSeq(b, 5, 8)) ELSE cnt

\* the loop ends with an exception
StatsThrow(p, st, msg) ==
    [pos |-> p, thrown |-> msg, stats |-> st.stats,
     fl |-> [st.fl EXCEPT !.short = TRUE], objects |-> st.i]

\* the loop state after the value b (in host order) of an object was stored
StatsStored(st, stat_type, b, ub) ==
    [i |-> st.i + 1,
     cnt |-> CntAfterValue(st.cnt, b, ub),
     stats |-> StatsStore(st.stats, stat_type, b),
     fl |-> [st.fl EXCEPT !.overflow = @ \/ Len(b) > STATS_BUF_SIZE]]

\* the loop state after an object whose bytes the stream did not all hold
StatsShort(st) == [st EXCEPT !.i = @ + 1, !.fl.short = TRUE]

\* the loop state after an object was skipped
StatsSkipped(st) == [st EXCEPT !.i = @ + 1]

RECURSIVE StatsLoop(_, _, _)
RECURSIVE StatsType(_, _, _, _)
RECURSIVE StatsLen(_, _, _, _, _)
RECURSIVE StatsObject(_, _, _, _, _)
RECURSIVE StatsValue(_, _, _, _, _, _)

\* the for loop over the stats objects, at stream position p
StatsLoop(e, p, st) ==
    IF ~LoopBelow(st.i, st.cnt)
    THEN [pos |-> p, thrown |-> "none", stats |-> st.stats, fl |-> st.fl, objects |-> st.i]
    ELSE StatsType(e, p, st, Recv(e.w, p, 2, e.atEnd))

\* after the recv of stat_type returned rt
StatsType(e, p, st, rt) ==
    IF rt.ret # 2
    THEN StatsThrow(Advance(p, rt), st, "ERROR: Cannot proceed since we cannot read the stats type.")
    ELSE StatsLen(e, p + 2, st, HostU16(reverseBytes(rt.data)), Recv(e.w, p + 2, 2, e.atEnd))

\* after the recv of stat_len returned rl
StatsLen(e, p, st, stat_type, rl) ==
    IF rl.ret # 2
    THEN StatsThrow(Advance(p, rl), st, "ERROR: Cannot proceed since we cannot read the stats len.")
    ELSE StatsObject(e, p + 2, st, stat_type, HostU16(reverseBytes(rl.data)))

\* the value of the object: read as a counter, or skipped byte by byte
\* (while (stat_len-- > 0) read(sock, &b[0], 1))
StatsObject(e, p, st, stat_type, stat_len) ==
    IF IsCounterLen(stat_len)
    THEN StatsValue(e, p, st, stat_type, stat_len, Recv(e.w, p, stat_len, e.atEnd))
    ELSE IF StreamLen(e.w) - p >= stat_len
    THEN StatsLoop(e, p + stat_len, StatsSkipped(st))
    ELSE StatsLoop(e, StreamLen(e.w), StatsShort(st))

\* after the recv of the counter value returned rv
StatsValue(e, p, st, stat_type, stat_len, rv) ==
    IF rv.ret = stat_len
    THEN StatsLoop(e, p + stat_len, StatsStored(st, stat_type, reverseBytes(rv.data), e.ub))
    ELSE StatsLoop(e, Advance(p, rv), StatsShort(st))

\* handleStatsReport after the recv of the count returned rc, up to the
\* call of add_StatReport
StatsCount(w, p, atEnd, hash, ub, rc) ==
    IF rc.ret # 4
    THEN [pos |-> Advance(p, rc),
          thrown |-> "ERROR:  Cannot proceed since we cannot read the stats mon counter",
          stats |-> StatsZero(hash), fl |-> [short |-> TRUE, overflow |-> FALSE],
          objects |-> 0, declared |-> U32Zero]
    ELSE StatsLoop([w |-> w, atEnd |-> atEnd, ub |-> ub], p + 4,
                   [i |-> 0, cnt |-> HostU32(reverseBytes(rc.data)), stats |-> StatsZero(hash),
                    fl |-> [short |-> FALSE, overflow |-> FALSE]])
         @@ [declared |-> HostU32(reverseBytes(rc.data))]

handleStatsReportAt(w, p, atEnd, hash, ub) ==
    StatsCount(w, p, atEnd, hash, ub, Recv(w, p, 4, atEnd))

(***************************************************************************)
(* handleInitMsg and handleTermMsg.                                        *)
(*                                                                         *)
(* A field of the router record is the bytes of its array with the         *)
(* trailing zero bytes left out.  The body buffer buf holds bmp_len bytes; *)
(* a read behind it yields the byte g (what the heap holds there).         *)
(***************************************************************************)
\* DbInterface::tbl_router as the caller hands it in
RouterZero ==
    [initiate_data |-> <<>>, descr |-> <<>>, name |-> <<>>, term_data |-> <<>>,
     term_reason_code |-> 0, term_reason_text |-> <<>>]

RECURSIVE Trim(_)
Trim(s) == IF s = <<>> \/ s[Len(s)] # 0 THEN s ELSE Trim(SubSeq(s, 1, Len(s) - 1))

\* the n bytes of buf from offset i (0-based), g for the bytes behind buf
BufBytes(buf, i, n, g) == [k \in 1..n |-> IF i + k <= Len(buf) THEN buf[i + k] ELSE g]

\* whether the n bytes from offset i lie inside buf
InBuf(buf, i, n) == i + n <= Len(buf)

\* the type and the length of the TLV header in the 4 bytes h, in host order
TLVType(h) == HostU16(reverseBytes(SubSeq(h, 1, 2)))
TLVLen(h) == HostU16(reverseBytes(SubSeq(h, 3, 4)))

\* infoLen = sizeof(infoBuf) < len ? sizeof(infoBuf) : len
InfoLen(size, len) == IF size < len THEN size ELSE len

\* memcpy(field, info, len) for len <= sizeof(field): the first len bytes replaced
MemcpyField(field, info, len) ==
    Trim([k \in 1..(IF Len(field) > len THEN Len(field) ELSE len) |->
             IF k <= len THEN info[k] ELSE field[k]])

\* the C string at the start of the bytes s
RECURSIVE CStr(_)
CStr(s) == IF s = <<>> \/ Head(s) = 0 THEN <<>> ELSE <<Head(s)>> \o CStr(Tail(s))

\* strncpy(field, info, size): the string, cut at size, zero padded
StrncpyField(info, size) == SubSeq(CStr(info), 1, InfoLen(size, Len(CStr(info))))

\* the router record after the switch of handleInitMsg on one TLV whose
\* value (infoLen bytes of it) is in infoBuf; len > 0
InitStore(r, type, len, infoBuf) ==
    IF type = INIT_TYPE_FREE_FORM_STRING
    THEN [r EXCEPT !.initiate_data = MemcpyField(@, infoBuf, InfoLen(INITIATE_DATA_SIZE, len))]
    ELSE IF type = INIT_TYPE_SYSNAME
    THEN [r EXCEPT !.name = StrncpyField(infoBuf, ROUTER_NAME_SIZE)]
    ELSE IF type = INIT_TYPE_SYSDESCR
    THEN [r EXCEPT !.descr = StrncpyField(infoBuf, ROUTER_DESCR_SIZE)]
    ELSE r

\* what one TLV of handleInitMsg does that C leaves undefined: a header or
\* value read behind buf ("oob"), strncpy from the null info pointer
\* ("null"), memcpy of more than the field and infoBuf hold ("overflow")
InitHazard(buf, i, type, len) ==
    IF ~InBuf(buf, i, BMP_INIT_MSG_LEN) THEN {"oob"}
    ELSE IF len > 0 /\ ~InBuf(buf, i + BMP_INIT_MSG_LEN, InfoLen(INITIATE_DATA_SIZE, len))
    THEN {"oob"}
    ELSE IF len = 0 /\ type \in {INIT_TYPE_SYSNAME, INIT_TYPE_SYSDESCR} THEN {"null"}
    ELSE IF len > INITIATE_DATA_SIZE /\ type = INIT_TYPE_FREE_FORM_STRING THEN {"overflow"}
    ELSE {}

\* strncpy from the null pointer info: the process dies
InitNullCopy(type, len) == len = 0 /\ type \in {INIT_TYPE_SYSNAME, INIT_TYPE_SYSDESCR}

RECURSIVE InitWalk(_, _, _, _)
RECURSIVE InitTLV(_, _, _, _, _, _)
RECURSIVE InitUpdate(_, _, _, _, _)

\* the for loop of handleInitMsg from offset i of buf; acc = [calls, hazards,
\* offs, g] holds the update_Router calls made, the hazards met and the
\* offsets at which a TLV header was read
InitWalk(buf, i, r, acc) ==
    IF i >= Len(buf)
    THEN [router |-> r, calls |-> acc.calls, hazards |-> acc.hazards, crashed |-> FALSE,
          offsets |-> acc.offs]
    ELSE InitTLV(buf, i, r, [acc EXCEPT !.offs = Append(@, i)], TLVType(BufBytes(buf, i, BMP_INIT_MSG_LEN, acc.g)),
                 TLVLen(BufBytes(buf, i, BMP_INIT_MSG_LEN, acc.g)))

\* one TLV of the given type and length at offset i
InitTLV(buf, i, r, acc, type, len) ==
    IF InitNullCopy(type, len)
    THEN [router |-> r, calls |-> acc.calls,
          hazards |-> acc.hazards \cup InitHazard(buf, i, type, len), crashed |-> TRUE,
          offsets |-> acc.offs]
    ELSE InitUpdate(buf, i + BMP_INIT_MSG_LEN + InfoLen(INITIATE_DATA_SIZE, len),
                    IF len > 0
                    THEN InitStore(r, type, len,
                                   BufBytes(buf, i + BMP_INIT_MSG_LEN,
                                            InfoLen(INITIATE_DATA_SIZE, len), acc.g))
                    ELSE r,
                    acc, InitHazard(buf, i, type, len))

\* dbi_ptr->update_Router(r_entry), and the next round of the loop; the call
\* is recorded with the offset of the TLV it follows
InitUpdate(buf, i, r, acc, hz) ==
    InitWalk(buf, i, r,
             [acc EXCEPT !.calls = Append(@, [call |-> "update_Router", router |-> r,
                                             tlv |-> acc.offs[Len(acc.offs)]]),
                         !.hazards = @ \cup hz])

\* a limit that refuses a body of exactly 40000 bytes
FitsBufferBelow(len) == U32LeqNat(len, MAX_TLV_MSG_LEN - 1)

\* bmp_len <= 40000: the body is small enough to be read and parsed
FitsBuffer(len) == U32LeqNat(len, MAX_TLV_MSG_LEN)

\* handleInitMsg after the recv of the body returned rb
InitBody(p, len, r, g, rb) ==
    IF rb.ret # U32Nat(len)
    THEN [pos |-> Advance(p, rb), router |-> r, calls |-> <<>>, hazards |-> {},
          crashed |-> FALSE, ignored |-> FALSE, offsets |-> <<>>,
          thrown |-> "ERROR: Failed to read complete init message from socket."]
    ELSE InitWalk(rb.data, 0, r, [calls |-> <<>>, hazards |-> {}, offs |-> <<>>, g |-> g])
         @@ [pos |-> Advance(p, rb), ignored |-> FALSE, thrown |-> "none"]

\* handleInitMsg from stream position p with bmp_len = len
handleInitMsgAt(w, p, atEnd, len, r, g) ==
    IF FitsBuffer(len)
    THEN InitBody(p, len, r, g, Recv(w, p, U32Nat(len), atEnd))
    ELSE [pos |-> p, router |-> r, calls |-> <<>>, hazards |-> {}, crashed |-> FALSE,
          ignored |-> TRUE, offsets |-> <<>>, thrown |-> "none"]

\* term_reason_text for a reason code
TermReasonText(code) ==
    IF code = TERM_REASON_ADMIN_CLOSE THEN <<"Remote session administratively closed">>
    ELSE IF code = TERM_REASON_OUT_OF_RESOURCES THEN <<"Remote out of resources">>
    ELSE IF code = TERM_REASON_REDUNDANT_CONN THEN <<"Remote considers connection redundant">>
    ELSE IF code = TERM_REASON_UNSPECIFIED THEN <<"Remote closed with unspecified reason">>
    ELSE <<"Unknown ">> \o Dec(code) \o <<" termination reason, which is not part of draft.">>

\* a reason code read without reverseBytes
TermReasonHostOrder(len, infoBuf) ==
    HostU16(ZeroFilled(SubSeq(infoBuf, 1, InfoLen(2, len)), 2))

\* the reason code in the first 2 bytes of infoBuf, of which the TLV filled len
TermReason(len, infoBuf) ==
    HostU16(reverseBytes(ZeroFilled(SubSeq(infoBuf, 1, InfoLen(2, len)), 2)))

\* the router record after the switch of handleTermMsg on one TLV; len > 0
TermStore(r, type, len, infoBuf) ==
    IF type = TERM_TYPE_FREE_FORM_STRING
    THEN [r EXCEPT !.term_data = MemcpyField(@, infoBuf, InfoLen(TERM_DATA_SIZE, len))]
    ELSE IF type = TERM_TYPE_REASON
    THEN [r EXCEPT !.term_reason_code = TermReason(len, infoBuf),
                   !.term_reason_text = TermReasonText(TermReason(len, infoBuf))]
    ELSE r

TermHazard(buf, i, type, len) ==
    IF ~InBuf(buf, i, BMP_TERM_MSG_LEN) THEN {"oob"}
    ELSE IF len > 0 /\ ~InBuf(buf, i + BMP_TERM_MSG_LEN, InfoLen(TERM_DATA_SIZE, len))
    THEN {"oob"}
    ELSE IF len = 0 /\ type = TERM_TYPE_REASON THEN {"null"}
    ELSE IF len > TERM_DATA_SIZE /\ type = TERM_TYPE_FREE_FORM_STRING THEN {"overflow"}
    ELSE {}

\* memcpy(&term_reason, termMsg.info, 2) from the null pointer info
TermNullCopy(type, len) == len = 0 /\ type = TERM_TYPE_REASON

RECURSIVE TermWalk(_, _, _, _)
RECURSIVE TermTLV(_, _, _, _, _, _)

\* the for loop of handleTermMsg from offset i of buf; acc = [hazards, offs, g]
TermWalk(buf, i, r, acc) ==
    IF i >= Len(buf)
    THEN [router |-> r, hazards |-> acc.hazards, crashed |-> FALSE, offsets |-> acc.offs]
    ELSE TermTLV(buf, i, r, [acc EXCEPT !.offs = Append(@, i)], TLVType(BufBytes(buf, i, BMP_TERM_MSG_LEN, acc.g)),
                 TLVLen(BufBytes(buf, i, BMP_TERM_MSG_LEN, acc.g)))

TermTLV(buf, i, r, acc, type, len) ==
    IF TermNullCopy(type, len)
    THEN [router |-> r, hazards |-> acc.hazards \cup TermHazard(buf, i, type, len),
          crashed |-> TRUE, offsets |-> acc.offs]
    ELSE TermWalk(buf, i + BMP_TERM_MSG_LEN + InfoLen(TERM_DATA_SIZE, len),
                  IF len > 0
                  THEN TermStore(r, type, len,
                                 BufBytes(buf, i + BMP_TERM_MSG_LEN,
                                          InfoLen(TERM_DATA_SIZE, len), acc.g))
                  ELSE r,
                  [acc EXCEPT !.hazards = @ \cup TermHazard(buf, i, type, len)])

\* handleTermMsg after the recv of the body returned rb
TermBody(p, len, r, g, rb) ==
    IF rb.ret # U32Nat(len)
    THEN [pos |-> Advance(p, rb), router |-> r, hazards |-> {},
          crashed |-> FALSE, ignored |-> FALSE, offsets |-> <<>>,
          thrown |-> "ERROR: Failed to read complete term message from socket."]
    ELSE TermWalk(rb.data, 0, r, [hazards |-> {}, offs |-> <<>>, g |-> g])
         @@ [pos |-> Advance(p, rb), ignored |-> FALSE, thrown |-> "none"]

\* handleTermMsg from stream position p with bmp_len = len
handleTermMsgAt(w, p, atEnd, len, r, g) ==
    IF FitsBuffer(len)
    THEN TermBody(p, len, r, g, Recv(w, p, U32Nat(len), atEnd))
    ELSE [pos |-> p, router |-> r, hazards |-> {}, crashed |-> FALSE,
          ignored |-> TRUE, offsets |-> <<>>, thrown |-> "none"]

(***************************************************************************)
(* parsePeerUpEventHdr.                                                    *)
(***************************************************************************)
\* int bytes_to_read = (bmp_len - BMP_PEER_HDR_LEN - bytes_read): the 32
\* bits, and whether they are a negative int
DrainBits(len, bytes_read) == U32Sub(U32Sub(len, BMP_PEER_HDR_LEN), bytes_read)
DrainNegative(len, bytes_read) == DrainBits(len, bytes_read)[1] >= 32768

\* up_event.local_ip, by the isIPv4 flag of the peer
LocalIpText(isIPv4, addr) ==
    IF isIPv4 THEN inet_ntop4(SubSeq(addr, 13, 16)) ELSE inet_ntop6(addr)

\* the reads failed after bytes_read bytes: the rest of the message is read
\* into new unsigned char[bytes_to_read], which throws for a negative size
PeerUpFail(w, p, atEnd, len, bytes_read, up) ==
    IF DrainNegative(len, bytes_read)
    THEN [pos |-> p, isParseGood |-> FALSE, up_event |-> up,
          thrown |-> "std::bad_array_new_length", bytes_read |-> bytes_read]
    ELSE [pos |-> Advance(p, Recv(w, p, U32Nat(DrainBits(len, bytes_read)), atEnd)),
          isParseGood |-> FALSE, up_event |-> up, thrown |-> "none",
          bytes_read |-> bytes_read]

\* A signal caught during a recv with MSG_WAITALL ends the call early:
\* sig = [read, got] names the read of parsePeerUpEventHdr that is
\* interrupted (0: none) and what it returns, -1 (EINTR, nothing consumed)
\* or the 1 byte it had received.
Interrupts == {[read |-> 0, got |-> 0]} \cup [read : 1..3, got : {-1, 1}]

\* read number k of parsePeerUpEventHdr, of n bytes at position p
RecvIntr(w, p, n, atEnd, sig, k) ==
    IF sig.read # k THEN Recv(w, p, n, atEnd)
    ELSE IF sig.got < 0 THEN [ret |-> -1, data |-> <<>>]
    ELSE Recv(w, p, sig.got, atEnd)

\* after the recv of the remote port returned rr
PeerUpRemote(w, p, atEnd, len, up, rr) ==
    IF rr.ret # 2 THEN PeerUpFail(w, Advance(p, rr), atEnd, len, 18, up)
    ELSE [pos |-> p + 2, isParseGood |-> TRUE,
          up_event |-> [up EXCEPT !.remote_port = HostU16(reverseBytes(rr.data))],
          thrown |-> "none", bytes_read |-> 20]

\* after the recv of the local port returned rl
PeerUpLocal(w, p, atEnd, len, up, sig, rl) ==
    IF rl.ret # 2 THEN PeerUpFail(w, Advance(p, rl), atEnd, len, 16, up)
    ELSE PeerUpRemote(w, p + 2, atEnd, len,
                      [up EXCEPT !.local_port = HostU16(reverseBytes(rl.data))],
                      RecvIntr(w, p + 2, 2, atEnd, sig, 3))

\* after the recv of the local address returned ra
PeerUpAddr(w, p, atEnd, len, peer, up, sig, ra) ==
    IF ra.ret # 16 THEN PeerUpFail(w, Advance(p, ra), atEnd, len, 0, up)
    ELSE PeerUpLocal(w, p + 16, atEnd, len,
                     [up EXCEPT !.local_ip = LocalIpText(peer.isIPv4, ra.data)],
                     sig, RecvIntr(w, p + 16, 2, atEnd, sig, 2))

parsePeerUpEventHdrAt(w, p, atEnd, len, peer, sig) ==
    PeerUpAddr(w, p, atEnd, len, peer,
               [peer_hash_id |-> peer.hash_id, timestamp_secs |-> peer.timestamp_secs,
                local_ip |-> <<>>, local_port |-> 0, remote_port |-> 0],
               sig, RecvIntr(w, p, 16, atEnd, sig, 1))

(***************************************************************************)
(* handleMessage, parseBMPv3 and parseBMPv2.  d = [bmp_type, bmp_len,      *)
(* peer] is the decoder before the call.                                   *)
(***************************************************************************)
\* the call ends at position p with the exception msg, the decoder as it was
HdrThrow(p, d, msg, short) ==
    [pos |-> p, thrown |-> msg, bmp_type |-> d.bmp_type, bmp_len |-> d.bmp_len,
     peer |-> d.peer, hdrLen |-> U32Zero, peerHdr |-> FALSE, short |-> short]

\* parseBMPv3 after the common header: type and len as read from the wire
V3Dispatch(w, p, atEnd, d, now, type, len) ==
    IF HasPeerHdr(type)
    THEN parsePeerHdr(w, p, atEnd, d.peer, now)
         @@ [thrown |-> "none", bmp_type |-> SChar(type), bmp_len |-> V3BodyLen(len),
             hdrLen |-> len, peerHdr |-> TRUE]
    ELSE [pos |-> p, thrown |-> "none", bmp_type |-> SChar(type),
          bmp_len |-> V3BodyLen(len), peer |-> d.peer, hdrLen |-> len,
          peerHdr |-> FALSE, short |-> FALSE]

\* parseBMPv3 after its recv of BMP_HDRv3_LEN bytes at p returned rc
V3Hdr(w, p, atEnd, d, now, rc) ==
    IF rc.ret # BMP_HDRv3_LEN
    THEN HdrThrow(Advance(p, rc), d, "ERROR: Cannot read v3 BMP common header.", TRUE)
    ELSE V3Dispatch(w, p + BMP_HDRv3_LEN, atEnd, d, now, V3HdrType(rc.data), V3HdrLen(rc.data))

parseBMPv3(w, p, atEnd, d, now) == V3Hdr(w, p, atEnd, d, now, Recv(w, p, BMP_HDRv3_LEN, atEnd))

\* parseBMPv2 after its recv of BMP_HDRv1v2_LEN bytes at p returned rc
V2Hdr(p, d, now, rc) ==
    IF rc.ret # BMP_HDRv1v2_LEN
    THEN HdrThrow(Advance(p, rc), d, "ERROR: Cannot read v1/v2 BMP common header.", TRUE)
    ELSE [pos |-> p + BMP_HDRv1v2_LEN, thrown |-> "none", bmp_type |-> SChar(rc.data[1]),
          bmp_len |-> d.bmp_len, peer |-> PeerFromHdrV2(d.peer, rc.data, now),
          hdrLen |-> U32Zero, peerHdr |-> TRUE, short |-> FALSE]

parseBMPv2(w, p, atEnd, d, now) == V2Hdr(p, d, now, Recv(w, p, BMP_HDRv1v2_LEN, atEnd))

\* the versions handleMessage hands to parseBMPv3 and to parseBMPv2
IsV3(v) == v = 3
\* a handleMessage that refuses version 2
IsV1V2OnlyV1(v) == v = 1
IsV1V2(v) == v = 1 \/ v = 2

\* handleMessage once the version byte v is read
VersionSwitch(w, p, atEnd, d, now, v) ==
    IF IsV3(v) THEN parseBMPv3(w, p, atEnd, d, now)
    ELSE IF IsV1V2(v) THEN parseBMPv2(w, p, atEnd, d, now)
    ELSE HdrThrow(p, d, "ERROR: Unsupported BMP message version", FALSE)

\* handleMessage after the read of the version byte at p returned rv
VersionRead(w, p, atEnd, d, now, rv) ==
    IF rv.ret < 0
    THEN HdrThrow(p, d, "(1) Failed to read from socket.", TRUE)
         @@ [ver |-> 0, vret |-> rv.ret]
    ELSE IF rv.ret = 0
    THEN HdrThrow(p, d, "(2) Connection closed", FALSE) @@ [ver |-> 0, vret |-> rv.ret]
    ELSE IF rv.ret # 1
    THEN HdrThrow(p, d, "(3) Cannot read the BMP version byte from socket", TRUE)
         @@ [ver |-> 0, vret |-> rv.ret]
    ELSE VersionSwitch(w, p + 1, atEnd, d, now, rv.data[1])
         @@ [ver |-> rv.data[1], vret |-> rv.ret]

handleMessageAt(w, p, atEnd, d, now) == VersionRead(w, p, atEnd, d, now, Recv(w, p, 1, atEnd))

(***************************************************************************)
(* The state.                                                              *)
(***************************************************************************)
VARIABLES
    input,      \* the connection's byte stream, as the names of its messages
    pos,        \* the number of bytes read from the socket so far
    pc,         \* where the caller of the decoder is: "msg" (it calls
                \* handleMessage next), "peer" (it registers the peer the
                \* header named), "body" (it calls the handler of bmp_type),
                \* "rest" (it reads what follows the peer up header),
                \* "closed" (an exception reached it, or the process died)
    ver,        \* the version byte handleMessage read last
    bmp_type,   \* parseBMP::bmp_type
    bmp_len,    \* parseBMP::bmp_len
    p_entry,    \* the peer record *p_entry
    r_entry,    \* the router record the caller hands to the handlers
    sink,       \* the calls made to the DbInterface, in order
    thrown,     \* the exception the last call ended with, or "none"
    msgStart,   \* pos when the last handleMessage was called
    hdrLen,     \* the length the last v3 common header declared
    lastOp      \* what the last operation did

vars == <<input, pos, pc, ver, bmp_type, bmp_len, p_entry, r_entry, sink,
          thrown, msgStart, hdrLen, lastOp>>

\* what a read finds at the end of the stream: 0 (closed) or -1 (I/O error)
EndOutcomes == {0, -1}

\* the values time(NULL) may return
Clock == {<<25000, 1>>, <<25000, 2>>}

\* the values a byte behind a heap buffer may hold
Garbage == {0, 170}

\* the identity the storage gives to a peer, which is that of the pair of
\* its address and its route distinguisher
HashOf(peer) == IF peer.isIPv4 THEN 11 ELSE 22

\* the state after the constructor parseBMP::parseBMP
Init ==
    /\ input \in Inputs
    /\ pos = 0
    /\ pc = "msg"
    /\ ver = 0
    /\ bmp_type = -1
    /\ bmp_len = U32Zero
    /\ p_entry = PeerZero
    /\ r_entry = RouterZero
    /\ sink = <<>>
    /\ thrown = "none"
    /\ msgStart = 0
    /\ hdrLen = U32Zero
    /\ lastOp = [op |-> "none"]

\* where the caller goes after handleMessage returned the type t
CallerNext(t) ==
    IF t \in {TYPE_ROUTE_MON, TYPE_STATS_REPORT, TYPE_PEER_DOWN, TYPE_PEER_UP} THEN "peer"
    ELSE IF t \in {TYPE_INIT_MSG, TYPE_TERM_MSG} THEN "body"
    ELSE "msg"

\* the decoder's fields as a call of handleMessage finds them
Decoder == [bmp_type |-> bmp_type, bmp_len |-> bmp_len, peer |-> p_entry]

\* a sink that takes the calls of a decoder ahead of those it has received
EmitFirst(s, calls) == [k \in 1..Len(calls) |-> calls[k] @@ [msg |-> msgStart]] \o s

\* The sink after the calls a body decoder has made, in the order it made
\* them; each is recorded with the stream offset of the message decoded.
Emit(s, calls) == s \o [k \in 1..Len(calls) |-> calls[k] @@ [msg |-> msgStart]]

\* the state after a call of handleMessage with the result res
handleMessageDone(res) ==
    /\ pos' = res.pos
    /\ ver' = res.ver
    /\ bmp_type' = res.bmp_type
    /\ bmp_len' = res.bmp_len
    /\ p_entry' = res.peer
    /\ thrown' = res.thrown
    /\ hdrLen' = res.hdrLen
    /\ pc' = IF res.thrown # "none" THEN "closed" ELSE CallerNext(res.bmp_type)
    /\ lastOp' = [op |-> "handleMessage", thrown |-> res.thrown, peerHdr |-> res.peerHdr,
                  short |-> res.short, vret |-> res.vret, peerBefore |-> p_entry,
                  lenBefore |-> bmp_len, start |-> pos]
    /\ msgStart' = pos
    /\ UNCHANGED <<input, r_entry, sink>>

handleMessage ==
    /\ pc = "msg"
    /\ \E atEnd \in EndOutcomes, now \in Clock :
         handleMessageDone(handleMessageAt(input, pos, atEnd, Decoder, now))

\* the caller registers the peer with the storage, which fills in hash_id
add_Peer ==
    /\ pc = "peer"
    /\ p_entry' = [p_entry EXCEPT !.hash_id = HashOf(p_entry)]
    /\ pc' = "body"
    /\ lastOp' = [op |-> "add_Peer", start |-> pos]
    /\ UNCHANGED <<input, pos, ver, bmp_type, bmp_len, r_entry, sink, thrown,
                   msgStart, hdrLen>>

\* add_StatReport is called when the loop ended without an exception
StatsAdded(res) == res.thrown = "none"

\* the stack guard ends the process when handleStatsReport returns
StatsAborted(res, ub) == StatsAdded(res) /\ res.fl.overflow /\ ub = "abort"

\* the state after a call of handleStatsReport with the result res
handleStatsReportDone(res, ub) ==
    /\ pos' = res.pos
    /\ thrown' = res.thrown
    /\ sink' = IF StatsAdded(res)
               THEN Emit(sink, <<[call |-> "add_StatReport", stats |-> res.stats,
                                  tlv |-> 0]>>)
               ELSE sink
    /\ pc' = IF res.thrown # "none" \/ StatsAborted(res, ub) THEN "closed" ELSE "msg"
    /\ lastOp' = [op |-> "handleStatsReport", thrown |-> res.thrown,
                  short |-> res.fl.short, overflow |-> res.fl.overflow,
                  objects |-> res.objects, declared |-> res.declared,
                  added |-> IF StatsAdded(res) THEN 1 ELSE 0,
                  aborted |-> StatsAborted(res, ub), ub |-> ub, start |-> pos]
    /\ UNCHANGED <<input, ver, bmp_type, bmp_len, p_entry, r_entry, msgStart, hdrLen>>

handleStatsReport ==
    /\ pc = "body"
    /\ bmp_type = TYPE_STATS_REPORT
    /\ \E atEnd \in EndOutcomes, ub \in UBOutcomes :
         handleStatsReportDone(handleStatsReportAt(input, pos, atEnd, p_entry.hash_id, ub), ub)

\* the state after a call of handleInitMsg with the result res
handleInitMsgDone(res) ==
    /\ pos' = res.pos
    /\ thrown' = res.thrown
    /\ r_entry' = res.router
    /\ sink' = Emit(sink, res.calls)
    /\ pc' = IF res.thrown # "none" \/ res.crashed THEN "closed" ELSE "msg"
    /\ lastOp' = [op |-> "handleInitMsg", thrown |-> res.thrown, ignored |-> res.ignored,
                  crashed |-> res.crashed, hazards |-> res.hazards,
                  calls |-> Len(res.calls), offsets |-> res.offsets, start |-> pos,
                  routerBefore |-> r_entry]
    /\ UNCHANGED <<input, ver, bmp_type, bmp_len, p_entry, msgStart, hdrLen>>

handleInitMsg ==
    /\ pc = "body"
    /\ bmp_type = TYPE_INIT_MSG
    /\ \E atEnd \in EndOutcomes, g \in Garbage :
         handleInitMsgDone(handleInitMsgAt(input, pos, atEnd, bmp_len, r_entry, g))

\* the state after a call of handleTermMsg with the result res
handleTermMsgDone(res) ==
    /\ pos' = res.pos
    /\ thrown' = res.thrown
    /\ r_entry' = res.router
    /\ pc' = IF res.thrown # "none" \/ res.crashed THEN "closed" ELSE "msg"
    /\ lastOp' = [op |-> "handleTermMsg", thrown |-> res.thrown, ignored |-> res.ignored,
                  crashed |-> res.crashed, hazards |-> res.hazards,
                  calls |-> 0, offsets |-> res.offsets, start |-> pos,
                  routerBefore |-> r_entry, sinkBefore |-> Len(sink)]
    /\ UNCHANGED <<input, ver, bmp_type, bmp_len, p_entry, sink, msgStart, hdrLen>>

handleTermMsg ==
    /\ pc = "body"
    /\ bmp_type = TYPE_TERM_MSG
    /\ \E atEnd \in EndOutcomes, g \in Garbage :
         handleTermMsgDone(handleTermMsgAt(input, pos, atEnd, bmp_len, r_entry, g))

\* the state after a call of parsePeerUpEventHdr with the result res
parsePeerUpEventHdrDone(res) ==
    /\ pos' = res.pos
    /\ thrown' = res.thrown
    /\ pc' = IF res.thrown # "none" THEN "closed"
             ELSE IF res.isParseGood THEN "rest" ELSE "msg"
    /\ lastOp' = [op |-> "parsePeerUpEventHdr", thrown |-> res.thrown,
                  isParseGood |-> res.isParseGood, up_event |-> res.up_event,
                  bytes_read |-> res.bytes_read, start |-> pos,
                  sinkBefore |-> Len(sink)]
    /\ UNCHANGED <<input, ver, bmp_type, bmp_len, p_entry, r_entry, sink, msgStart,
                   hdrLen>>

parsePeerUpEventHdr ==
    /\ pc = "body"
    /\ bmp_type = TYPE_PEER_UP
    /\ \E atEnd \in EndOutcomes, sig \in Interrupts :
         parsePeerUpEventHdrDone(parsePeerUpEventHdrAt(input, pos, atEnd, bmp_len, p_entry,
                                                       sig))

\* the smallest end of a message of the input at or behind position p
NextEnd(p) ==
    IF \E k \in 1..Len(input) : EndOf(input, k) >= p
    THEN EndOf(input, CHOOSE k \in 1..Len(input) :
                          /\ EndOf(input, k) >= p
                          /\ \A j \in 1..Len(input) : EndOf(input, j) >= p => j >= k)
    ELSE p

\* min(n, bytes left in the stream) for a uint32_t n
AtMostLeft(n) ==
    IF n[1] >= 32768 \/ U32Nat(n) > StreamLen(input) - pos THEN StreamLen(input) - pos
    ELSE U32Nat(n)

\* the number of bytes the caller still reads of the current message, of
\* whose part behind the peer header `done` bytes are read: by
\* getBMPLength() for a v3 message, to the end of the BGP message(s) that
\* follow the header for a v1/v2 message
RestOfBody(done) ==
    IF ver = 3 THEN AtMostLeft(U32Sub(U32Sub(bmp_len, BMP_PEER_HDR_LEN), done))
    ELSE NextEnd(pos) - pos

\* the caller reads the body the core does not decode (Route Monitoring,
\* Peer Down, and what follows the peer up header)
readBody ==
    /\ \/ pc = "body" /\ bmp_type \in {TYPE_ROUTE_MON, TYPE_PEER_DOWN}
       \/ pc = "rest"
    /\ pos' = pos + RestOfBody(IF pc = "rest" THEN lastOp.bytes_read ELSE 0)
    /\ pc' = "msg"
    /\ lastOp' = [op |-> "readBody", start |-> pos]
    /\ UNCHANGED <<input, ver, bmp_type, bmp_len, p_entry, r_entry, sink, thrown,
                   msgStart, hdrLen>>

Next ==
    \/ handleMessage
    \/ add_Peer
    \/ handleStatsReport
    \/ handleInitMsg
    \/ handleTermMsg
    \/ parsePeerUpEventHdr
    \/ readBody

Spec == Init /\ [][Next]_vars

(***************************************************************************)
(* The framing of the stream, for the properties below.                    *)
(***************************************************************************)
\* a message of the input starts at stream offset p
StartsMsg(p) == \E k \in 1..Len(input) : EndOf(input, k - 1) = p

\* the name of the message that starts at stream offset p
NameAt(p) == input[CHOOSE k \in 1..Len(input) : EndOf(input, k - 1) = p]

\* the offset at which the message that starts at offset p ends
EndAt(p) == p + Len(Catalogue[NameAt(p)])

\* the complete, valid v3 messages of the catalogue whose body the core
\* decodes: Stats Report, Initiation and Termination messages whose TLVs
\* fill the declared length
ValidDecoded == {"stats", "stats4", "statsHi", "init", "term", "initMax", "init40001"}

\* the operations that decode a body
BodyDecoders == {"handleStatsReport", "handleInitMsg", "handleTermMsg"}

\* the 8 bytes a 64-bit counter of value hi * 2^32 + lo occupies in host memory
Counter64(hi, lo) == reverseBytes(U32BE(hi) \o U32BE(lo))

\* the last call the sink received
LastCall == sink[Len(sink)]

(***************************************************************************)
(* The properties.                                                         *)
(***************************************************************************)

\* C1: after handleMessage and the body decoder of its type have run on a
\* valid complete v3 Stats Report, Initiation or Termination message that
\* starts at stream offset msgStart, exactly the declared length of that
\* message is consumed: the position is the end of the message.
C1ConsumesDeclaredLength ==
    (/\ lastOp.op \in BodyDecoders
     /\ ver = 3
     /\ StartsMsg(msgStart)
     /\ NameAt(msgStart) \in ValidDecoded)
    => /\ pos = msgStart + U32Nat(hdrLen)
       /\ pos = EndAt(msgStart)

\* C2: after handleMessage has read a v3 common header with a type outside
\* 0..5 (of a message that starts at a message boundary), no handler that
\* emits a record is due, and the declared body is drained: the next byte
\* handleMessage reads is the one behind the declared length.
C2UnknownTypeDrained ==
    (/\ lastOp.op = "handleMessage"
     /\ thrown = "none"
     /\ ver = 3
     /\ bmp_type \notin TYPE_ROUTE_MON..TYPE_TERM_MSG
     /\ StartsMsg(lastOp.start))
    => /\ pc = "msg"
       /\ pos = lastOp.start + U32Nat(hdrLen)

\* C3: after handleInitMsg or handleTermMsg has refused a message because
\* its body exceeds 40000 bytes, the declared bytes of the message are
\* consumed: the position is the end of the message.
C3OversizeDrained ==
    (/\ lastOp.op \in {"handleInitMsg", "handleTermMsg"}
     /\ lastOp.ignored
     /\ StartsMsg(msgStart)
     /\ hdrLen[1] = 0
     /\ hdrLen[2] > 40000 + 1 + BMP_HDRv3_LEN)
    => pos = msgStart + U32Nat(hdrLen)

\* C4: a short read of the v3 peer header ends handleMessage with an error
\* and leaves the peer record as it was; a short read of a stats type,
\* length, value or skipped byte ends handleStatsReport with an error and
\* without a call of add_StatReport.
C4ShortReadFatal ==
    /\ (lastOp.op = "handleMessage" /\ lastOp.peerHdr /\ lastOp.short)
       => (thrown # "none" /\ p_entry = lastOp.peerBefore)
    /\ (lastOp.op = "handleStatsReport" /\ lastOp.short)
       => (thrown # "none" /\ lastOp.added = 0)

\* C5: handleMessage throws, and the session is closed, exactly when the
\* read of the version byte reports a close (0) or an error (< 0), the
\* version is not 1, 2 or 3, or the stream ends before the whole v3 or
\* v1/v2 common header; the close is reported by an exception of its own.
C5ThrowsExactly ==
    lastOp.op = "handleMessage"
    => /\ (thrown # "none")
          <=> \/ lastOp.vret <= 0
              \/ ver \notin {1, 2, 3}
              \/ ver = 3 /\ StreamLen(input) - lastOp.start - 1 < BMP_HDRv3_LEN
              \/ ver \in {1, 2} /\ StreamLen(input) - lastOp.start - 1 < BMP_HDRv1v2_LEN
       /\ (thrown # "none") <=> (pc = "closed")
       /\ (thrown = "(2) Connection closed") <=> (lastOp.vret = 0)
       /\ (lastOp.vret < 0) => thrown = "(1) Failed to read from socket."
       /\ (lastOp.vret = 1 /\ ver \notin {1, 2, 3})
          => thrown = "ERROR: Unsupported BMP message version"

\* C5, its case: the peer closes the connection after a decoded message
C5Witness ==
    /\ lastOp.op = "handleMessage"
    /\ lastOp.vret = 0
    /\ thrown = "(2) Connection closed"
    /\ pc = "closed"
    /\ pos > 0

\* C6: after parseBMPv3 has decoded a common header that declares the
\* length L, bmp_len is the integer L - (1 + BMP_HDRv3_LEN) and does not
\* exceed L.
C6BodyLength ==
    (lastOp.op = "handleMessage" /\ ver = 3 /\ thrown = "none" /\ hdrLen[1] = 0)
    => /\ bmp_len[1] = 0
       /\ bmp_len[2] = hdrLen[2] - (1 + BMP_HDRv3_LEN)
       /\ U32Leq(bmp_len, hdrLen)

\* C7 as stated: an Initiation message is processed when the message, as
\* its common header declares it, has at most 40000 bytes, and is refused
\* when it has more.
C7LimitOnMessageLength ==
    (lastOp.op = "handleInitMsg" /\ hdrLen[1] = 0 /\ hdrLen[2] >= 1 + BMP_HDRv3_LEN)
    => (lastOp.ignored <=> hdrLen[2] > 40000)

\* C7: handleInitMsg reads and decodes the body exactly when bmp_len, the
\* declared length less the 6 bytes of the common header, is at most 40000
\* (a body of 40000 bytes is processed, one of 40001 is not); when it is
\* more, no byte is read, update_Router is not called and the router record
\* stays as it was.
C7LimitOnBodyLength ==
    lastOp.op = "handleInitMsg"
    => /\ lastOp.ignored <=> ~(bmp_len[1] = 0 /\ bmp_len[2] <= 40000)
       /\ lastOp.ignored
          => /\ pos = lastOp.start
             /\ lastOp.calls = 0
             /\ r_entry = lastOp.routerBefore
             /\ thrown = "none"
       /\ (~lastOp.ignored /\ thrown = "none")
          => /\ pos = lastOp.start + U32Nat(bmp_len)
             /\ (bmp_len[2] > 0 /\ ~lastOp.crashed => lastOp.calls > 0)

\* C7, its case: a body of 40001 bytes was refused
C7Witness ==
    /\ lastOp.op = "handleInitMsg"
    /\ bmp_len = <<0, 40001>>
    /\ lastOp.ignored
    /\ pos = lastOp.start

\* C8: after the v3 common header handleMessage consumes the peer header
\* and overwrites the peer record with what it holds exactly for the types
\* 0..3; for the other types, 4 and 5 among them, it consumes nothing more
\* and the peer record stays as it was, and for 4 and 5 the body decoder is
\* next.
C8PeerHdrByType ==
    (lastOp.op = "handleMessage" /\ ver = 3 /\ thrown = "none")
    => IF bmp_type \in {0, 1, 2, 3}
       THEN /\ lastOp.peerHdr
            /\ pos = IF StreamLen(input) - lastOp.start >= 1 + BMP_HDRv3_LEN + BMP_PEER_HDR_LEN
                     THEN lastOp.start + 1 + BMP_HDRv3_LEN + BMP_PEER_HDR_LEN
                     ELSE StreamLen(input)
            /\ \E now \in Clock :
                 p_entry = PeerFromHdrV3(lastOp.peerBefore,
                               ZeroFilled(StreamBytes(input, 1, lastOp.start + 1 + BMP_HDRv3_LEN,
                                                      pos),
                                          BMP_PEER_HDR_LEN),
                               now)
            /\ pc = "peer"
       ELSE /\ ~lastOp.peerHdr
            /\ pos = lastOp.start + 1 + BMP_HDRv3_LEN
            /\ p_entry = lastOp.peerBefore
            /\ bmp_type \in {4, 5} => pc = "body"

\* C8, its case: an Initiation header read while the peer record holds the
\* peer of an earlier message
C8Witness ==
    /\ lastOp.op = "handleMessage"
    /\ ver = 3
    /\ bmp_type = TYPE_INIT_MSG
    /\ lastOp.peerBefore # PeerZero
    /\ p_entry = lastOp.peerBefore
    /\ pc = "body"

\* C9: a call of handleStatsReport that ends without an exception has made
\* one call of add_StatReport, after as many stats objects were consumed as
\* the report declares, with the hash of the current peer in the record; a
\* call that ends with an exception has made none.
C9OneReportAfterAll ==
    lastOp.op = "handleStatsReport"
    => IF thrown = "none"
       THEN /\ lastOp.added = 1
            /\ lastOp.declared = U32(lastOp.objects)
            /\ LastCall.call = "add_StatReport"
            /\ LastCall.stats.peer_hash_id = p_entry.hash_id
       ELSE lastOp.added = 0

\* C10: the record emitted for a complete stats report holds, for every
\* object of length 4 or 8 and of a known type, the big-endian value of
\* the object; objects of an unknown type or of another length, 0
\* included, change no counter, raise no exception, and the objects behind
\* them are decoded.
C10CountersOfReport ==
    (/\ lastOp.op = "handleStatsReport"
     /\ ver = 3
     /\ StartsMsg(msgStart)
     /\ NameAt(msgStart) \in {"stats", "stats4", "statsHi"})
    => /\ thrown = "none"
       /\ lastOp.added = 1
       /\ NameAt(msgStart) = "stats"
          => LastCall.stats.counter =
                 [t \in StatsTypes |->
                     IF t = STATS_PREFIX_REJ THEN Counter64(0, 7)
                     ELSE IF t = STATS_NUM_ROUTES_ADJ_RIB_IN THEN Counter64(0, 42)
                     ELSE Zeros(8)]
       /\ NameAt(msgStart) = "stats4"
          => LastCall.stats.counter =
                 [t \in StatsTypes |->
                     IF t = STATS_DUP_PREFIX THEN Counter64(0, 9) ELSE Zeros(8)]
       /\ NameAt(msgStart) = "statsHi"
          => LastCall.stats.counter =
                 [t \in StatsTypes |->
                     IF t = STATS_NUM_ROUTES_LOC_RIB THEN Counter64(1, 5)
                     ELSE IF t = STATS_PREFIX_REJ THEN Counter64(0, 3)
                     ELSE Zeros(8)]

(***************************************************************************)
(* The TLVs of a body as the wire format defines them, for the properties  *)
(* of the Initiation and Termination walks.                                *)
(***************************************************************************)
\* the TLVs of body from offset i: at each offset a 2-byte type, a 2-byte
\* length and a value of `length` bytes, the next TLV 4 + length further
RECURSIVE WireTLVs(_, _)
WireTLVs(body, i) ==
    IF i + 4 > Len(body) THEN <<>>
    ELSE <<[at |-> i,
            type |-> body[i + 1] * 256 + body[i + 2],
            len |-> body[i + 3] * 256 + body[i + 4],
            value |-> SubSeq(body, i + 5,
                             IF i + 4 + body[i + 3] * 256 + body[i + 4] <= Len(body)
                             THEN i + 4 + body[i + 3] * 256 + body[i + 4]
                             ELSE Len(body))]>>
         \o WireTLVs(body, i + 4 + body[i + 3] * 256 + body[i + 4])

\* the body the last handleInitMsg or handleTermMsg was given: the bmp_len
\* bytes of the stream from where it was called
WalkedBody == StreamBytes(input, 1, lastOp.start, lastOp.start + U32Nat(bmp_len))

\* the last operation walked a body it had read in full
WalkedBy(op) ==
    /\ lastOp.op = op
    /\ ~lastOp.ignored
    /\ thrown = "none"

\* the k-th of the calls the last operation made to the sink
CallOfLast(k) == sink[Len(sink) - lastOp.calls + k]

\* C11: after handleInitMsg has walked a body of at most 40000 bytes, it has
\* called update_Router once per TLV of the body, and the record of the k-th
\* call holds the value of the k-th TLV, byte for byte, in initiate_data
\* (type 0), descr (type 1) or name (type 2) when the value is no longer
\* than the field.
C11StoresEachTLV ==
    WalkedBy("handleInitMsg")
    => /\ lastOp.calls = Len(WireTLVs(WalkedBody, 0))
       /\ \A k \in 1..Len(WireTLVs(WalkedBody, 0)) :
            k <= lastOp.calls
            => /\ CallOfLast(k).call = "update_Router"
               /\ (/\ WireTLVs(WalkedBody, 0)[k].type = INIT_TYPE_FREE_FORM_STRING
                   /\ WireTLVs(WalkedBody, 0)[k].len <= INITIATE_DATA_SIZE)
                  => CallOfLast(k).router.initiate_data = WireTLVs(WalkedBody, 0)[k].value
               /\ (/\ WireTLVs(WalkedBody, 0)[k].type = INIT_TYPE_SYSDESCR
                   /\ WireTLVs(WalkedBody, 0)[k].len <= ROUTER_DESCR_SIZE)
                  => CallOfLast(k).router.descr = WireTLVs(WalkedBody, 0)[k].value
               /\ (/\ WireTLVs(WalkedBody, 0)[k].type = INIT_TYPE_SYSNAME
                   /\ WireTLVs(WalkedBody, 0)[k].len <= ROUTER_NAME_SIZE)
                  => CallOfLast(k).router.name = WireTLVs(WalkedBody, 0)[k].value

\* C12: the walk of an Initiation or Termination body reads a TLV header
\* at exactly the offsets of the TLVs of the body, each 4 + length behind
\* the one before, whatever the lengths of the values.
C12WalkAtTrueOffsets ==
    (WalkedBy("handleInitMsg") \/ WalkedBy("handleTermMsg"))
    => lastOp.offsets =
           [k \in 1..Len(WireTLVs(WalkedBody, 0)) |-> WireTLVs(WalkedBody, 0)[k].at]

\* the text the specification gives for a termination reason code
ReasonTextOf(code) ==
    IF code = 0 THEN <<"Remote closed with unspecified reason">>
    ELSE IF code = 1 THEN <<"Remote session administratively closed">>
    ELSE IF code = 2 THEN <<"Remote out of resources">>
    ELSE IF code = 3 THEN <<"Remote considers connection redundant">>
    ELSE <<"Unknown ">> \o Dec(code) \o <<" termination reason, which is not part of draft.">>

\* the type in the TLV header at offset o of body
TypeAt(body, o) == body[o + 1] * 256 + body[o + 2]

\* offset k of the walk is the last one at which it read a reason TLV with
\* the 2 bytes of a reason code
LastReasonAt(body, offs, k) ==
    /\ offs[k] + BMP_TERM_MSG_LEN + 2 <= Len(body)
    /\ TypeAt(body, offs[k]) = 1
    /\ body[offs[k] + 3] * 256 + body[offs[k] + 4] >= 2
    /\ \A j \in (k + 1)..Len(offs) :
         offs[j] + BMP_TERM_MSG_LEN <= Len(body) => TypeAt(body, offs[j]) # 1

WholeMessage == hdrLen[1] = 0 /\ msgStart + U32Nat(hdrLen) <= StreamLen(input)

\* C14: after parsePeerUpEventHdr on a message that is whole in the stream:
\* if one of its three reads was short it has returned false without
\* throwing, the sink has received nothing, and the stream stands at the
\* end of the message (its start plus its declared length); if all three
\* succeeded it has returned true, the event carries the hash id and the
\* timestamp of the current peer record, and the ports are the big-endian
\* values of the 2 + 2 bytes behind the 16 bytes of the local address.
C14PeerUpShortOrGood ==
    (lastOp.op = "parsePeerUpEventHdr" /\ WholeMessage)
    => /\ lastOp.isParseGood = (lastOp.bytes_read = 20)
       /\ Len(sink) = lastOp.sinkBefore
       /\ lastOp.isParseGood
          => /\ lastOp.up_event.peer_hash_id = p_entry.hash_id
             /\ lastOp.up_event.timestamp_secs = p_entry.timestamp_secs
             /\ lastOp.up_event.local_port =
                    HostU16(reverseBytes(StreamBytes(input, 1, lastOp.start + 16,
                                                     lastOp.start + 18)))
             /\ lastOp.up_event.remote_port =
                    HostU16(reverseBytes(StreamBytes(input, 1, lastOp.start + 18,
                                                     lastOp.start + 20)))
       /\ ~lastOp.isParseGood
          => /\ thrown = "none"
             /\ pos = msgStart + U32Nat(hdrLen)

\* handleMessage has returned from a header parse that populated p_entry
PeerParsed == lastOp.op = "handleMessage" /\ thrown = "none" /\ lastOp.peerHdr

\* The 42 bytes of the per-peer header that parse decoded, as they stand in
\* the stream: behind the 6 bytes of the v3 common header (short of 42
\* bytes at the end of the stream, where p_hdr keeps its zeros), or behind
\* the version and message type bytes of a v1/v2 header.
ParsedPeerHdr ==
    IF ver = 3
    THEN ZeroFilled(StreamBytes(input, 1, lastOp.start + 1 + BMP_HDRv3_LEN, pos),
                    BMP_PEER_HDR_LEN)
    ELSE StreamBytes(input, 1, lastOp.start + 2, lastOp.start + 2 + BMP_PEER_HDR_LEN)

\* the text t holds the character c
HasChar(t, c) == \E i \in 1..Len(t) : t[i] = c

\* C15: after a header parse of either path, isIPv4 of the peer record is
\* true iff bit 0x80 of the flags byte of the header is 0, and peer_addr is
\* the dotted quad of bytes 12..15 of the address field (no colon in it)
\* when the bit is 0, the IPv6 text of its 16 bytes (with a colon) when it
\* is 1.
C15FamilyByVFlag ==
    PeerParsed
    => /\ p_entry.isIPv4 = ((ParsedPeerHdr[2] \div 128) % 2 = 0)
       /\ p_entry.peer_addr =
              IF p_entry.isIPv4 THEN inet_ntop4(SubSeq(ParsedPeerHdr, 23, 26))
              ELSE inet_ntop6(SubSeq(ParsedPeerHdr, 11, 26))
       /\ p_entry.isIPv4 = ~HasChar(p_entry.peer_addr, ":")
       /\ p_entry.isIPv4 => HasChar(p_entry.peer_addr, ".")

\* C15, its case: a v1 header with the V flag set, after one of a v3
\* message whose peer was IPv4
C15Witness ==
    /\ PeerParsed
    /\ ver = 1
    /\ ParsedPeerHdr[2] = 192
    /\ lastOp.peerBefore.isIPv4
    /\ ~p_entry.isIPv4
    /\ HasChar(p_entry.peer_addr, ":")

\* C16: after a header parse of either path, isL3VPN of the peer record is
\* true iff the peer type byte of the header is 1, whatever the message
\* type.
C16L3VPNByPeerType ==
    PeerParsed => (p_entry.isL3VPN = (ParsedPeerHdr[1] = 1))

\* the text of the distinguisher d as the format by type describes it: the
\* fields are big-endian and lie behind the 2 bytes of the type
DistinguisherText(d) ==
    IF d[1] * 256 + d[2] = 1
    THEN inet_ntop4(SubSeq(d, 3, 6)) \o <<":">> \o DecOfBytes(SubSeq(d, 7, 8))
    ELSE IF d[1] * 256 + d[2] = 2
    THEN DecOfBytes(SubSeq(d, 3, 6)) \o <<":">> \o DecOfBytes(SubSeq(d, 7, 8))
    ELSE DecOfBytes(SubSeq(d, 3, 4)) \o <<":">> \o DecOfBytes(SubSeq(d, 5, 8))

\* C17: after a header parse of either path, peer_rd is the text of the 8
\* distinguisher bytes of the header by their type: A.B.C.D:N for type 1,
\* ASN:N for type 2, and for any other type the 2 bytes at offset 2, a
\* colon, and the 4 bytes at offset 4, all big-endian.
C17DistinguisherText ==
    PeerParsed => p_entry.peer_rd = DistinguisherText(SubSeq(ParsedPeerHdr, 3, 10))

\* C18: the calls the sink has received stand in the order of the wire: of
\* two calls the earlier one is for a message that starts no later in the
\* stream, and when both are for the same message, for a TLV that stands
\* earlier in its body.
C18SinkInWireOrder ==
    \A j, k \in 1..Len(sink) :
        j < k => \/ sink[j].msg < sink[k].msg
                 \/ sink[j].msg = sink[k].msg /\ sink[j].tlv < sink[k].tlv

\* C18, its case: a Stats Report and then an Initiation message of several
\* TLVs have made their calls
C18Witness ==
    /\ Len(sink) >= 3
    /\ sink[1].call = "add_StatReport"
    /\ sink[2].call = "update_Router"
    /\ sink[1].msg < sink[2].msg
    /\ sink[2].msg = sink[3].msg

\* C19: when handleMessage has returned without throwing, the value it has
\* returned (bmp_type) is not negative and is the type byte of the message
\* just read, the byte behind the version byte.
C19ReturnsTypeRead ==
    (lastOp.op = "handleMessage" /\ thrown = "none")
    => /\ bmp_type >= 0
       /\ <<bmp_type>> = StreamBytes(input, 1, lastOp.start + 1, lastOp.start + 2)

\* C20: a counter value read by handleStatsReport has been received and
\* byte-reversed within the STATS_BUF_SIZE bytes of b.
C20CounterFitsScratch ==
    lastOp.op = "handleStatsReport" => ~lastOp.overflow

\* C21: the walk of handleInitMsg or handleTermMsg over a body has read no
\* TLV header and no TLV value at or behind offset bmp_len of the buffer
\* that holds the body.
C21WalkInsideBody ==
    lastOp.op \in {"handleInitMsg", "handleTermMsg"} => "oob" \notin lastOp.hazards

\* C22: handleInitMsg or handleTermMsg has copied into no field of the
\* router record more bytes than the field holds, and has read no more than
\* that from infoBuf: the copy of a free-form TLV longer than initiate_data
\* or term_data was cut to the size of the field.
C22CopiesWithinCapacity ==
    lastOp.op \in {"handleInitMsg", "handleTermMsg"} => "overflow" \notin lastOp.hazards

\* C23: handleInitMsg or handleTermMsg has copied nothing from the null
\* info pointer of a TLV of length 0, and its walk has gone on to the end of
\* the body: behind a TLV of length 0 the next header was read 4 bytes on.
C23EmptyTLVSkipped ==
    (lastOp.op \in {"handleInitMsg", "handleTermMsg"} /\ thrown = "none" /\ ~lastOp.ignored)
    => /\ "null" \notin lastOp.hazards
       /\ ~lastOp.crashed
       /\ \A k \in 1..Len(lastOp.offsets) :
            (/\ lastOp.offsets[k] + BMP_INIT_MSG_LEN < Len(WalkedBody)
             /\ WalkedBody[lastOp.offsets[k] + 3] = 0
             /\ WalkedBody[lastOp.offsets[k] + 4] = 0)
            => /\ k < Len(lastOp.offsets)
               /\ lastOp.offsets[k + 1] = lastOp.offsets[k] + BMP_INIT_MSG_LEN

\* C24: when a read of parsePeerUpEventHdr has failed, the size of its
\* drain, bmp_len - BMP_PEER_HDR_LEN - bytes_read taken as an int, is not
\* negative and not above bmp_len, and the allocation of that size has not
\* thrown.
C24DrainSizeInRange ==
    (lastOp.op = "parsePeerUpEventHdr" /\ ~lastOp.isParseGood)
    => /\ ~DrainNegative(bmp_len, lastOp.bytes_read)
       /\ U32Leq(DrainBits(bmp_len, lastOp.bytes_read), bmp_len)
       /\ thrown = "none"

\* handleMessage has returned from parseBMPv2
V2Parsed == lastOp.op = "handleMessage" /\ thrown = "none" /\ ver \in {1, 2}

\* the fields of the peer record that a v3 peer header sets, isPrePolicy aside
HeaderFields ==
    {"isIPv4", "peer_addr", "peer_as", "peer_bgp_id", "peer_rd", "timestamp_secs",
     "isL3VPN"}

\* C25: after the decoding of a v1/v2 header, bmp_len and isPrePolicy of
\* the peer record are what they were before the call, which on a decoder
\* that has decoded nothing is 0 and false; each of the other fields a v3
\* peer header sets holds what the v1/v2 header alone gives it, whatever
\* the record held before.
C25V2LeavesLenAndPolicy ==
    V2Parsed
    => /\ bmp_len = lastOp.lenBefore
       /\ p_entry.isPrePolicy = lastOp.peerBefore.isPrePolicy
       /\ lastOp.start = 0 => bmp_len = U32Zero /\ ~p_entry.isPrePolicy
       /\ \E now \in Clock :
            \A f \in HeaderFields :
                p_entry[f] = PeerFromHdrV2(PeerZero,
                                           StreamBytes(input, 1, lastOp.start + 1,
                                                       lastOp.start + 1 + BMP_HDRv1v2_LEN),
                                           now)[f]

\* C25, its case: a v1 header with the L flag set, read after a v3 message
\* whose peer header had it clear; every other field has changed
C25Witness ==
    /\ V2Parsed
    /\ lastOp.start > 0
    /\ bmp_len # U32Zero
    /\ p_entry.isPrePolicy
    /\ StreamBytes(input, 1, lastOp.start + 3, lastOp.start + 4) = <<192>>
    /\ \A f \in HeaderFields : p_entry[f] # lastOp.peerBefore[f]

====
